---- MODULE Spec2Model ----
(***************************************************************************)
(* Model of rinja_derive/src/input.rs: the process-wide template source    *)
(* cache behind get_template_source and the dependency walker              *)
(* TemplateInput::find_used_templates.                                     *)
(*                                                                         *)
(* Threads call get_template_source; the call is split at the points where *)
(* other threads can interleave: the cache lookup (get_value_or_guard),    *)
(* the filesystem read followed by guard.insert, and the wake-up of a      *)
(* thread that waited on another thread's placeholder.                     *)
(***************************************************************************)
EXTENDS Naturals, Sequences, FiniteSets, TLC

VARIABLES
    files,      \* the filesystem: path -> [ok, val] (text, or the I/O error)
    cache,      \* CACHE: path -> entry (Vacant, Placeholder, Success, Failure)
    pc,         \* thread -> position inside get_template_source
    arg,        \* thread -> [path, from]: tpl_path and import_from of the call
    ret,        \* thread -> value handed over by the loader / the call's result
    how,        \* thread -> how the current call got its value (history)
    handoff,    \* thread -> outcome a loader left for this waiter
    budget,     \* calls the client threads may still issue
    reads,      \* path -> number of read_to_string calls so far (history)
    writes,     \* path -> number of guard.insert calls so far (history)
    first,      \* path -> the first outcome ever stored for it (history)
    evictions,  \* path -> number of times its value was evicted (history)
    tpl,        \* the template files: path -> [status, nodes] (what the parser
                \* makes of the file's text)
    wk,         \* walker thread -> the locals of its find_used_templates call
    xt          \* one call of extension(path): [pc, path, ext, out], and the
                \* file name the path was made of (history)

vars == <<files, cache, pc, arg, ret, how, handoff, budget, reads, writes, first,
          evictions, tpl, wk, xt>>

-----------------------------------------------------------------------------
(* Bounds of the model *)

\* threads calling get_template_source concurrently
NumCallers == 2
\* concurrent find_used_templates calls of the shared-cache scenario
NumWalkers == 2
\* longest file name given to extension(), in tokens
MaxNameLen == 5
\* longest file content, in characters
MaxLen == 2
\* calls issued in the concurrent scenario
MaxCalls == 3
\* distinct paths of the many-templates scenario
ManyPaths == 9
\* deepest nesting of if blocks and macro definitions in a parse tree
MaxDepth == 2

(* Program constants *)

\* Cache::new(8)
Capacity == 8

-----------------------------------------------------------------------------
(* Values *)

Chars == {"a", "\n"}

Texts == UNION {[1..n -> Chars] : n \in 0..MaxLen}

IoErrors == {"NotFound"}

FileOk(text) == [ok |-> TRUE, val |-> text]
FileErr(err) == [ok |-> FALSE, val |-> <<err>>]

\* import_from: None, or the referencing (node_file, file_source, node_source)
None == <<>>
Froms == {None, <<"F1">>}

Vacant == [tag |-> "Vacant", val |-> <<>>]
Placeholder == [tag |-> "Placeholder", val |-> <<>>]
Success(data) == [tag |-> "Success", val |-> data]
Failure(msg) == [tag |-> "Failure", val |-> msg]

IsValue(e) == e.tag \in {"Success", "Failure"}

\* Ok(data) and Err(CompileError::new(msg, file_info))
Ok(data) == [ok |-> TRUE, val |-> data, file_info |-> None]
Err(msg, info) == [ok |-> FALSE, val |-> msg, file_info |-> info]

NoRet == [ok |-> TRUE, val |-> <<>>, file_info |-> None]
NoExtCall == [pc |-> "none", name |-> <<>>, path |-> <<>>, ext |-> None, out |-> None]
NoArg == [path |-> "", from |-> None]

Paths == DOMAIN files
Threads == DOMAIN pc
Walkers == DOMAIN wk

-----------------------------------------------------------------------------
(* get_template_source *)

\* (mutant) every trailing newline is removed
StripAll(text) ==
    LET n == CHOOSE k \in 0..Len(text) :
                 /\ \A i \in (k+1)..Len(text) : text[i] = "\n"
                 /\ (k > 0 => text[k] # "\n")
    IN SubSeq(text, 1, n)

\* if source.ends_with('\n') { source.pop() }
TrimNewline(text) ==
    IF Len(text) > 0 /\ text[Len(text)] = "\n"
    THEN SubSeq(text, 1, Len(text) - 1)
    ELSE text

\* format!("unable to open template file '{}': {err}", tpl_path)
OpenErrorMsg(p, err) == <<"unable to open template file", p>> \o err

\* the match on read_to_string(tpl_path): the outcome to store
ReadOutcome(p) ==
    IF files[p].ok
    THEN Success(TrimNewline(files[p].val))
    ELSE Failure(OpenErrorMsg(p, files[p].val))

\* what a call returns for an outcome: Ok(data), or the message with the
\* file info of this call (mk_file_info)
ResultOf(outcome, from) ==
    IF outcome.tag = "Success" THEN Ok(outcome.val) ELSE Err(outcome.val, from)

Residents(c) == {p \in DOMAIN c : IsValue(c[p])}

\* Cache::new(8): the cache holds at most Capacity values; an insert that
\* exceeds it evicts a resident value, chosen by the replacement policy
AfterEviction(c) ==
    IF Cardinality(Residents(c)) <= Capacity
    THEN {c}
    ELSE {[c EXCEPT ![v] = Vacant] : v \in Residents(c)}

\* (mutant) one lock for the whole cache: no guard while any load is in flight
GuardGlobal(e) == e = Vacant /\ \A q \in DOMAIN cache : cache[q] # Placeholder

\* (mutant) a guard is given out although another thread holds one
GuardAlways(e) == TRUE

\* get_value_or_guard gives the guard to the first thread that finds no entry
GuardFree(e) == e = Vacant

\* (mutant) the wait on another thread's placeholder gives up at once
OnPlaceholderTimeout == "returned"

\* get_value_or_guard(tpl_path, None): the timeout is None, so a caller that
\* finds another thread's placeholder blocks until the value is inserted
OnPlaceholder == "waiting"

\* cache.get_value_or_guard(tpl_path, None) and the match on its result
Lookup(t, p, from) ==
    /\ arg' = [arg EXCEPT ![t] = [path |-> p, from |-> from]]
    /\ CASE IsValue(cache[p]) ->
              /\ pc' = [pc EXCEPT ![t] = "returned"]
              /\ ret' = [ret EXCEPT ![t] = ResultOf(cache[p], from)]
              /\ how' = [how EXCEPT ![t] = "hit"]
              /\ cache' = cache
         [] ~IsValue(cache[p]) /\ GuardFree(cache[p]) ->
              /\ pc' = [pc EXCEPT ![t] = "reading"]
              /\ how' = [how EXCEPT ![t] = "loaded"]
              /\ cache' = [cache EXCEPT ![p] = Placeholder]
              /\ ret' = ret
         [] OTHER ->
              /\ pc' = [pc EXCEPT ![t] = OnPlaceholder]
              /\ how' = [how EXCEPT ![t] = "waited"]
              /\ UNCHANGED <<cache, ret>>
    /\ UNCHANGED <<xt, files, handoff, reads, writes, first, evictions, tpl>>

Waiters(p) == {w \in Threads : pc[w] = "waiting" /\ arg[w].path = p}

\* read_to_string, then guard.insert(outcome): the value is stored and handed
\* to every thread waiting on the placeholder
LoadAndInsert(t) ==
    /\ pc[t] = "reading"
    /\ LET p == arg[t].path
           outcome == ReadOutcome(p)
       IN /\ reads' = [reads EXCEPT ![p] = @ + 1]
          /\ writes' = [writes EXCEPT ![p] = @ + 1]
          /\ first' = [first EXCEPT ![p] = IF @ = Vacant THEN outcome ELSE @]
          /\ cache' \in AfterEviction([cache EXCEPT ![p] = outcome])
          /\ evictions' = [q \in Paths |->
                 IF IsValue(cache'[q]) \/ ~IsValue([cache EXCEPT ![p] = outcome][q])
                 THEN evictions[q] ELSE evictions[q] + 1]
          /\ handoff' = [w \in Threads |->
                           IF w \in Waiters(p) THEN outcome ELSE handoff[w]]
          /\ pc' = [w \in Threads |->
                      IF w = t THEN "returned"
                      ELSE IF w \in Waiters(p) THEN "woken" ELSE pc[w]]
          /\ ret' = [ret EXCEPT ![t] = ResultOf(outcome, arg[t].from)]
    /\ UNCHANGED <<xt, files, arg, how, budget, tpl, wk>>

\* a waiter resumes with GuardResult::Value(outcome)
Wake(t) ==
    /\ pc[t] = "woken"
    /\ pc' = [pc EXCEPT ![t] = "returned"]
    /\ ret' = [ret EXCEPT ![t] = ResultOf(handoff[t], arg[t].from)]
    /\ handoff' = [handoff EXCEPT ![t] = Vacant]
    /\ UNCHANGED <<xt, files, cache, arg, how, budget, reads, writes, first,
                   evictions, tpl, wk>>

-----------------------------------------------------------------------------
(* Client threads: any caller of get_template_source *)

ClientCall(t) ==
    /\ t \notin Walkers
    /\ pc[t] = "idle"
    /\ budget > 0
    /\ budget' = budget - 1
    /\ wk' = wk
    /\ \E p \in Paths, from \in Froms : Lookup(t, p, from)

ClientReturn(t) ==
    /\ t \notin Walkers
    /\ pc[t] = "returned"
    /\ pc' = [pc EXCEPT ![t] = "idle"]
    /\ arg' = [arg EXCEPT ![t] = NoArg]
    /\ ret' = [ret EXCEPT ![t] = NoRet]
    /\ how' = [how EXCEPT ![t] = "none"]
    /\ UNCHANGED <<xt, files, cache, handoff, budget, reads, writes, first,
                   evictions, tpl, wk>>

-----------------------------------------------------------------------------
(* Parse trees. A node is [kind, path, lists]: path is the literal of an   *)
(* extends/import/include node, lists are the child node lists of a        *)
(* structural node (macro body, filter block, block definition, the        *)
(* branches of an if, body and else of a loop, the arms of a match).       *)

Templates == {"A", "B", "C"}
InlinePath == "S"
Keys == Templates \cup {InlinePath}

Leaf(kind, target) == [kind |-> kind, path |-> target, lists |-> <<>>]
Lit == [kind |-> "Lit", path |-> "", lists |-> <<>>]
Struct(kind, lists) == [kind |-> kind, path |-> "", lists |-> lists]

\* Config::find_template(name, Some(&path)): the canonical path of the
\* template the literal names, or an error when no file matches
FindTemplate(name) ==
    [ok |-> tpl[name].status \notin {"absent", "inline"}, path |-> name]

\* self.syntax.parse(source, source_path): the tree the parser makes of the
\* text, or a syntax error
Parse(source) ==
    LET f == tpl[source[1]]
    IN [ok |-> f.status \in {"ok", "inline"}, nodes |-> f.nodes]

-----------------------------------------------------------------------------
(* TemplateInput::find_used_templates *)

MapNone == [tag |-> "none", src |-> <<>>]
\* Arc::default(): the dummy entry of add_to_check
Dummy == [tag |-> "dummy", src |-> <<>>]
\* (mutant) the dummy entry is stored again instead of the parsed template
StillDummy(source) == Dummy

\* map.insert(path, parsed): the Parsed of the template's source
ParsedOf(source) == [tag |-> "parsed", src |-> source]

NoResult == [kind |-> "none", val |-> <<>>, file_info |-> None]
OkResult == [kind |-> "Ok", val |-> <<>>, file_info |-> None]
LoadError(r) == [kind |-> "Load", val |-> r.val, file_info |-> r.file_info]
ResolveError(name, from) == [kind |-> "Resolve", val |-> <<name>>, file_info |-> from]
ParseError(source) == [kind |-> "Parse", val |-> source, file_info |-> None]

\* (mutant) the first recorded edge is left out of the chain
ChainOfRest(graph) ==
    [i \in 1..(Len(graph) - 1) |-> <<graph[i + 1][1], "-->", graph[i + 1][2]>>]

\* format!("{:#?} --> {:#?}", e.0, e.1) for every edge, in order
ChainOf(graph) ==
    [i \in 1..Len(graph) |-> <<graph[i][1], "-->", graph[i][2]>>]

\* cyclic_graph_error(&dependency_graph)
CyclicError(graph) == [kind |-> "Cyclic", val |-> ChainOf(graph), file_info |-> None]

Contains(seq, x) == \E i \in 1..Len(seq) : seq[i] = x

Item(path, source, source_path) ==
    [path |-> path, source |-> source, source_path |-> source_path]

\* Some((&path, parsed.source(), n.span()))
ImportFrom(w, n) == <<w.path, n.kind, n.path>>

CacheUnchanged ==
    UNCHANGED <<xt, files, cache, pc, arg, ret, how, handoff, reads, writes, first,
                evictions>>

Finish(t, w, result) ==
    wk' = [wk EXCEPT ![t] = [w EXCEPT !.pc = "done", !.result = result]]

\* the thread's get_template_source call has returned and its value is taken
TakeReturn(t) ==
    /\ pc' = [pc EXCEPT ![t] = "idle"]
    /\ arg' = [arg EXCEPT ![t] = NoArg]
    /\ ret' = [ret EXCEPT ![t] = NoRet]
    /\ how' = [how EXCEPT ![t] = "none"]
    /\ UNCHANGED <<xt, files, cache, handoff, reads, writes, first, evictions>>

\* lines 120-129: the entry's source, then check = vec![(path, source, source_path)]
WStart(t) ==
    /\ wk[t].pc = "start"
    /\ IF wk[t].inline
       THEN /\ wk' = [wk EXCEPT ![t].pc = "pop",
                                ![t].check = <<Item(wk[t].entry, <<wk[t].entry>>, None)>>,
                                ![t].pushes[wk[t].entry] = @ + 1]
            /\ CacheUnchanged
       ELSE /\ Lookup(t, wk[t].entry, None)
            /\ wk' = [wk EXCEPT ![t].pc = "entry"]
    /\ UNCHANGED <<budget, tpl>>

WEntryLoaded(t) ==
    /\ wk[t].pc = "entry"
    /\ pc[t] = "returned"
    /\ TakeReturn(t)
    /\ IF ret[t].ok
       THEN wk' = [wk EXCEPT ![t].pc = "pop",
                             ![t].check = <<Item(wk[t].entry, ret[t].val,
                                                 <<wk[t].entry>>)>>,
                             ![t].pushes[wk[t].entry] = @ + 1]
       ELSE Finish(t, wk[t], LoadError(ret[t]))
    /\ UNCHANGED <<budget, tpl>>

\* (mutant) the top flag is not cleared after the root list
TopStays == TRUE

\* line 210: top = false
TopAfterList == FALSE

\* lines 130-135: check.pop(), parse, top = true, nested = vec![parsed.nodes()]
\* and the first nested.pop(); Ok(()) when check is empty
WPop(t) ==
    /\ wk[t].pc = "pop"
    /\ LET w == wk[t] IN
       IF w.check = <<>>
       THEN Finish(t, w, OkResult)
       ELSE LET item == w.check[Len(w.check)]
                parsed == Parse(item.source)
                rest == SubSeq(w.check, 1, Len(w.check) - 1)
            IN IF ~parsed.ok
               THEN Finish(t, [w EXCEPT !.check = rest], ParseError(item.source))
               ELSE wk' = [wk EXCEPT ![t] =
                              [w EXCEPT !.pc = "scan", !.check = rest,
                                        !.path = item.path, !.source = item.source,
                                        !.top = TRUE, !.nested = <<>>,
                                        !.nodes = parsed.nodes, !.idx = 1,
                                        !.root = TRUE]]
    /\ CacheUnchanged
    /\ UNCHANGED <<budget, tpl>>

\* (mutant) a path whose source is already in the shared cache counts as
\* already present
VacantIfUncached(m, new_path) == m[new_path] = MapNone /\ cache[new_path] = Vacant

\* (mutant) every path counts as already present
NeverVacant(m, new_path) == FALSE

\* if let Entry::Vacant(e) = map.entry(new_path)
IsVacant(m, new_path) == m[new_path] = MapNone

\* lines 137-150, up to the call of get_template_source
AddToCheck(t, w, new_path, n) ==
    IF IsVacant(w.map, new_path)
    THEN /\ Lookup(t, new_path, ImportFrom(w, n))
         /\ wk' = [wk EXCEPT ![t] = [w EXCEPT !.pc = "loading", !.pending = new_path]]
    ELSE /\ wk' = [wk EXCEPT ![t] = [w EXCEPT !.idx = @ + 1]]
         /\ CacheUnchanged

\* (mutant) a template extending itself is treated like any other target
NeverSelf(path, extends) == FALSE

\* if path == extends
IsSelf(path, extends) == path = extends

\* (mutant) the else-branch of a loop is not scanned
ChildListsNoElse(n) == IF n.kind = "Loop" THEN <<n.lists[1]>> ELSE n.lists

\* (mutant) only the first child list of a node is scanned
ChildListsFirst(n) == IF n.lists = <<>> THEN <<>> ELSE <<n.lists[1]>>

\* (mutant) the list holding the node is pushed instead of its children
ChildListsSelf(n) == <<(<<n>>)>>

\* the node lists a structural node pushes onto nested, in push order
ChildLists(n) == n.lists

\* lines 136-209: one iteration of `for n in nodes`
WNode(t) ==
    /\ wk[t].pc = "scan"
    /\ wk[t].idx <= Len(wk[t].nodes)
    /\ LET w == wk[t]
           n == w.nodes[w.idx]
           found == FindTemplate(n.path)
           edge == <<w.path, found.path>>
       IN CASE n.kind = "Extends" /\ w.top ->
                 IF ~found.ok
                 THEN Finish(t, w, ResolveError(n.path, ImportFrom(w, n))) /\ CacheUnchanged
                 ELSE IF IsSelf(w.path, found.path)
                 THEN /\ Finish(t, [w EXCEPT !.graph = Append(@, edge)],
                                CyclicError(Append(w.graph, edge)))
                      /\ CacheUnchanged
                 ELSE IF Contains(w.graph, edge)
                 THEN Finish(t, w, CyclicError(w.graph)) /\ CacheUnchanged
                 ELSE AddToCheck(t, [w EXCEPT !.graph = Append(@, edge)], found.path, n)
            [] n.kind = "Macro" /\ w.top ->
                 /\ wk' = [wk EXCEPT ![t] = [w EXCEPT !.nested = @ \o ChildLists(n),
                                                      !.idx = @ + 1]]
                 /\ CacheUnchanged
            [] n.kind = "Import" /\ w.top ->
                 IF ~found.ok
                 THEN Finish(t, w, ResolveError(n.path, ImportFrom(w, n))) /\ CacheUnchanged
                 ELSE AddToCheck(t, w, found.path, n)
            [] n.kind = "Include" ->
                 IF ~found.ok
                 THEN Finish(t, w, ResolveError(n.path, ImportFrom(w, n))) /\ CacheUnchanged
                 ELSE AddToCheck(t, w, found.path, n)
            [] n.kind \in {"FilterBlock", "BlockDef", "If", "Loop", "Match"} ->
                 /\ wk' = [wk EXCEPT ![t] = [w EXCEPT !.nested = @ \o ChildLists(n),
                                                      !.idx = @ + 1]]
                 /\ CacheUnchanged
            [] OTHER ->
                 /\ wk' = [wk EXCEPT ![t] = [w EXCEPT !.idx = @ + 1]]
                 /\ CacheUnchanged
    /\ UNCHANGED <<budget, tpl>>

\* lines 142-147: get_template_source returned inside add_to_check
WLoaded(t) ==
    /\ wk[t].pc = "loading"
    /\ pc[t] = "returned"
    /\ TakeReturn(t)
    /\ LET w == wk[t]
           new_path == w.pending
       IN IF ret[t].ok
          THEN wk' = [wk EXCEPT ![t] =
                        [w EXCEPT !.pc = "scan",
                                  !.check = Append(@, Item(new_path, ret[t].val, <<new_path>>)),
                                  !.map = [@ EXCEPT ![new_path] = Dummy],
                                  !.pushes = [@ EXCEPT ![new_path] = @ + 1],
                                  !.pending = "",
                                  !.idx = @ + 1]]
          ELSE Finish(t, w, LoadError(ret[t]))
    /\ UNCHANGED <<budget, tpl>>

\* lines 209-212: the end of `for n in nodes`: top = false, then the next
\* nested.pop(), or map.insert(path, parsed) when nested is empty
WEndList(t) ==
    /\ wk[t].pc = "scan"
    /\ wk[t].idx > Len(wk[t].nodes)
    /\ LET w == wk[t] IN
       IF w.nested # <<>>
       THEN wk' = [wk EXCEPT ![t] =
                     [w EXCEPT !.top = TopAfterList,
                               !.nodes = w.nested[Len(w.nested)],
                               !.nested = SubSeq(@, 1, Len(@) - 1),
                               !.idx = 1,
                               !.root = FALSE]]
       ELSE wk' = [wk EXCEPT ![t] =
                     [w EXCEPT !.pc = "pop", !.top = TopAfterList,
                               !.nodes = <<>>, !.idx = 1, !.root = FALSE,
                               !.map = [@ EXCEPT ![w.path] = ParsedOf(w.source)]]]
    /\ CacheUnchanged
    /\ UNCHANGED <<budget, tpl>>

-----------------------------------------------------------------------------
(* extension(path). A path is a sequence of tokens: the separator "/", the  *)
(* dot ".", and words (runs of other characters); adjacent words read as    *)
(* one longer word. An Option is None or Some(v).                           *)

Some(v) == <<v>>

Words == {"foo", "html", "j2", "jinja", "jinja2"}
NameTokens == {"."} \cup Words

\* the pieces of a path between separators
RECURSIVE Segments(_)
Segments(path) ==
    IF path = <<>> THEN <<(<<>>)>>
    ELSE LET rest == Segments(Tail(path))
         IN IF Head(path) = "/"
            THEN <<(<<>>)>> \o rest
            ELSE <<(<<Head(path)>> \o rest[1])>> \o Tail(rest)

IsNamed(segment) == segment # <<>> /\ segment # <<".">>

\* Path::file_name: the last component, unless the path ends in `..`;
\* repeated separators, a trailing separator and `.` components are skipped
FileName(path) ==
    LET c == SelectSeq(Segments(path), IsNamed)
    IN IF c = <<>> \/ c[Len(c)] = <<".", ".">> THEN None ELSE Some(c[Len(c)])

LastDot(name) ==
    IF \E i \in 1..Len(name) : name[i] = "."
    THEN CHOOSE i \in 1..Len(name) :
             name[i] = "." /\ \A j \in (i + 1)..Len(name) : name[j] # "."
    ELSE 0

\* the split of a file name at its last dot, as (before, after)
SplitAtDot(name) ==
    LET i == LastDot(name)
    IN IF name = <<".", ".">> \/ i = 1 THEN [before |-> Some(name), after |-> None]
       ELSE IF i = 0 THEN [before |-> None, after |-> Some(name)]
       ELSE [before |-> Some(SubSeq(name, 1, i - 1)),
             after |-> Some(SubSeq(name, i + 1, Len(name)))]

\* path.extension(): before.and(after)
PathExtension(path) ==
    IF FileName(path) = None THEN None
    ELSE LET s == SplitAtDot(FileName(path)[1])
         IN IF s.before = None THEN None ELSE s.after

\* path.file_stem(): before.or(after)
PathFileStem(path) ==
    IF FileName(path) = None THEN None
    ELSE LET s == SplitAtDot(FileName(path)[1])
         IN IF s.before # None THEN s.before ELSE s.after

\* (mutant) jinja2 is not on the list
JinjaShort == {<<"j2">>, <<"jinja">>}

\* const JINJA_EXTENSIONS: [&str; 3] = ["j2", "jinja", "jinja2"]
JINJA_EXTENSIONS == {<<"j2">>, <<"jinja">>, <<"jinja2">>}

\* let ext = path.extension().map(..)?
ExtFirst ==
    /\ xt.pc = "start"
    /\ LET ext == PathExtension(xt.path)
       IN xt' = IF ext = None
                THEN [xt EXCEPT !.pc = "done", !.out = None]
                ELSE [xt EXCEPT !.pc = "ext", !.ext = ext]
    /\ UNCHANGED <<files, cache, pc, arg, ret, how, handoff, budget, reads,
                   writes, first, evictions, tpl, wk>>

\* the if on JINJA_EXTENSIONS.contains(&ext)
ExtSecond ==
    /\ xt.pc = "ext"
    /\ LET ext == xt.ext[1]
           inner == PathExtension(PathFileStem(xt.path)[1])
       IN xt' = [xt EXCEPT !.pc = "done",
                           !.out = IF ext \in JINJA_EXTENSIONS
                                   THEN (IF inner # None THEN inner ELSE Some(ext))
                                   ELSE Some(ext)]
    /\ UNCHANGED <<files, cache, pc, arg, ret, how, handoff, budget, reads,
                   writes, first, evictions, tpl, wk>>

-----------------------------------------------------------------------------
(* Initial states *)

FileStates == {FileOk(x) : x \in Texts} \cup {FileErr(e) : e \in IoErrors}

PathName(i) == ToString(i)

InitThreads(T) ==
    /\ pc = [t \in T |-> "idle"]
    /\ arg = [t \in T |-> NoArg]
    /\ ret = [t \in T |-> NoRet]
    /\ how = [t \in T |-> "none"]
    /\ handoff = [t \in T |-> Vacant]

InitCache ==
    /\ cache = [p \in Paths |-> Vacant]
    /\ reads = [p \in Paths |-> 0]
    /\ writes = [p \in Paths |-> 0]
    /\ first = [p \in Paths |-> Vacant]
    /\ evictions = [p \in Paths |-> 0]

\* several threads and two paths: one file of any content, and one that ends
\* with a newline or is missing
InitShared ==
    /\ \E f \in FileStates, g \in {FileOk(<<"a", "\n">>), FileErr("NotFound")} :
          files = [p \in {PathName(1), PathName(2)} |->
                     IF p = PathName(1) THEN f ELSE g]
    /\ InitCache
    /\ InitThreads(1..NumCallers)
    /\ budget = MaxCalls
    /\ tpl = <<>>
    /\ wk = <<>>
    /\ xt = NoExtCall

\* one thread, more paths than the cache capacity
InitMany ==
    /\ \E f \in {FileOk(<<"a", "\n">>), FileErr("NotFound")} :
          files = [p \in {PathName(i) : i \in 1..ManyPaths} |->
                     IF p = PathName(1) THEN f ELSE FileOk(<<"a">>)]
    /\ InitCache
    /\ InitThreads({1})
    /\ budget = ManyPaths + 1
    /\ tpl = <<>>
    /\ wk = <<>>
    /\ xt = NoExtCall

Init == InitShared \/ InitMany

(* The template sets of the walker's runs *)

DirKinds == {"Extends", "Import", "Include"}
Directives == {Leaf(k, x) : k \in DirKinds, x \in Templates}

Variants == {"Macro", "FilterBlock", "BlockDef", "If", "LoopBody", "LoopElse", "Match"}

\* a structural node of the given shape around the node list `list`
Wrap(v, list) ==
    CASE v = "If" -> Struct("If", <<(<<Lit>>), list>>)
      [] v = "LoopBody" -> Struct("Loop", <<list, (<<>>)>>)
      [] v = "LoopElse" -> Struct("Loop", <<(<<Lit>>), list>>)
      [] v = "Match" -> Struct("Match", <<list, (<<>>)>>)
      [] OTHER -> Struct(v, <<list>>)

RECURSIVE WrapChain(_, _)
WrapChain(chain, node) ==
    IF chain = <<>> THEN node
    ELSE Wrap(Head(chain), <<WrapChain(Tail(chain), node)>>)

\* nestings of if blocks and macro definitions, 2 to MaxDepth deep
DeepChains == UNION {[1..d -> {"If", "Macro"}] : d \in 2..MaxDepth}

SimpleTrees == {<<Lit>>} \cup {<<d>> : d \in Directives}

RichTrees ==
    SimpleTrees
    \cup {<<d1, d2>> : d1 \in Directives, d2 \in Directives}
    \cup {<<Wrap(v, <<d>>)>> : v \in Variants, d \in Directives}
    \cup {<<WrapChain(c, d)>> : c \in DeepChains, d \in Directives}

TplOk(nodes) == [status |-> "ok", nodes |-> nodes]
TplInline(nodes) == [status |-> "inline", nodes |-> nodes]
Absent == [status |-> "absent", nodes |-> <<>>]
Unreadable == [status |-> "unreadable", nodes |-> <<>>]
Unparseable == [status |-> "unparseable", nodes |-> <<>>]

SimpleFiles == {TplOk(x) : x \in SimpleTrees} \cup {Absent, Unreadable, Unparseable}
RichFiles == {TplOk(x) : x \in RichTrees} \cup {Unreadable, Unparseable}
SmallFiles == {TplOk(<<Lit>>), TplOk(<<Leaf("Extends", "A")>>),
               TplOk(<<Leaf("Include", "A")>>), Absent}

NewWalker(entry, inline) ==
    [pc |-> "start", entry |-> entry, inline |-> inline,
     path |-> "", source |-> <<>>, nodes |-> <<>>, idx |-> 1, root |-> FALSE,
     top |-> FALSE, nested |-> <<>>, check |-> <<>>, graph |-> <<>>,
     map |-> [k \in Keys |-> MapNone], pending |-> "", result |-> NoResult,
     pushes |-> [k \in Keys |-> 0]]

\* one find_used_templates call on a fresh process, with an empty map
InitWalkOf(entry, inline) ==
    /\ files = [p \in {q \in Templates : tpl[q].status # "absent"} |->
                  IF tpl[p].status = "unreadable"
                  THEN FileErr("NotFound") ELSE FileOk(<<p>>)]
    /\ InitCache
    /\ InitThreads({1})
    /\ budget = 0
    /\ wk = [w \in {1} |-> NewWalker(entry, inline)]
    /\ xt = NoExtCall

InitWalk ==
    \/ \E a \in RichFiles, b \in SimpleFiles, c \in SmallFiles, e \in {"A", "B"} :
          /\ tpl = [k \in Keys |->
                      CASE k = "A" -> a [] k = "B" -> b [] k = "C" -> c
                        [] OTHER -> Absent]
          /\ tpl[e].status # "absent"
          /\ InitWalkOf(e, FALSE)
    \/ \E s \in SimpleTrees, a \in SimpleFiles, b \in SimpleFiles :
          /\ tpl = [k \in Keys |->
                      CASE k = "A" -> a [] k = "B" -> b [] k = "C" -> Absent
                        [] OTHER -> TplInline(s)]
          /\ InitWalkOf(InlinePath, TRUE)

\* the files of concurrent calls: A with one directive or with an extends
\* followed by an include of itself, B plain, referring to A, or broken
PairFilesA ==
    {TplOk(<<Leaf(k, x)>>) : k \in DirKinds, x \in {"A", "B"}}
    \cup {TplOk(<<Leaf("Extends", "B"), Leaf("Include", "A")>>)}
PairFilesB ==
    {TplOk(<<Lit>>), TplOk(<<Leaf("Include", "A")>>), TplOk(<<Leaf("Extends", "A")>>),
     Absent, Unreadable, Unparseable}

\* the cache of a process that has already loaded the paths in `warm`
InitWarm(warm) ==
    /\ cache = [p \in Paths |-> IF p \in warm THEN ReadOutcome(p) ELSE Vacant]
    /\ reads = [p \in Paths |-> IF p \in warm THEN 1 ELSE 0]
    /\ writes = [p \in Paths |-> IF p \in warm THEN 1 ELSE 0]
    /\ first = [p \in Paths |-> IF p \in warm THEN ReadOutcome(p) ELSE Vacant]
    /\ evictions = [p \in Paths |-> 0]

\* several find_used_templates calls, for the same entry or for different
\* ones, running concurrently on a process whose cache may already hold some
\* sources
InitPair ==
    /\ \E a \in PairFilesA, b \in PairFilesB :
          tpl = [k \in Keys |-> CASE k = "A" -> a [] k = "B" -> b [] OTHER -> Absent]
    /\ files = [p \in {q \in Templates : tpl[q].status # "absent"} |->
                  IF tpl[p].status = "unreadable"
                  THEN FileErr("NotFound") ELSE FileOk(<<p>>)]
    /\ \E warm \in SUBSET Paths : InitWarm(warm)
    /\ InitThreads(1..NumWalkers)
    /\ budget = 0
    /\ \E e \in [1..NumWalkers -> {q \in {"A", "B"} : tpl[q].status # "absent"}] :
          wk = [w \in 1..NumWalkers |-> NewWalker(e[w], FALSE)]
    /\ xt = NoExtCall

\* the paths given to extension(): a file name of up to MaxNameLen tokens,
\* behind some directories and possibly followed by a separator
Names == UNION {[1..n -> NameTokens] : n \in 1..MaxNameLen}
DirPrefixes == {<<>>, <<"/">>, <<"foo", "/">>, <<"foo", ".", "j2", "/">>}
Trailers == {<<>>, <<"/">>, <<"/", ".">>}
PathOf(d, n, r) == d \o n \o r

\* one call of extension(path)
InitExt ==
    /\ files = <<>>
    /\ InitCache
    /\ InitThreads({})
    /\ budget = 0
    /\ tpl = <<>>
    /\ wk = <<>>
    /\ \E d \in DirPrefixes, n \in Names, r \in Trailers :
          xt = [pc |-> "start", name |-> n, path |-> PathOf(d, n, r),
                ext |-> None, out |-> None]

Next ==
    \/ \E t \in Threads : ClientCall(t)
    \/ \E t \in Threads : LoadAndInsert(t)
    \/ \E t \in Threads : Wake(t)
    \/ \E t \in Threads : ClientReturn(t)

Spec == Init /\ [][Next]_vars

NextWalk ==
    \/ \E t \in Walkers : WStart(t)
    \/ \E t \in Walkers : WEntryLoaded(t)
    \/ \E t \in Walkers : WPop(t)
    \/ \E t \in Walkers : WNode(t)
    \/ \E t \in Walkers : WLoaded(t)
    \/ \E t \in Walkers : WEndList(t)
    \/ \E t \in Walkers : LoadAndInsert(t)

SpecWalk == InitWalk /\ [][NextWalk]_vars

\* the walker runs on; its filesystem reads return
SpecWalkFair == SpecWalk /\ WF_vars(NextWalk)

NextPair ==
    \/ \E t \in Walkers : WStart(t)
    \/ \E t \in Walkers : WEntryLoaded(t)
    \/ \E t \in Walkers : WPop(t)
    \/ \E t \in Walkers : WNode(t)
    \/ \E t \in Walkers : WLoaded(t)
    \/ \E t \in Walkers : WEndList(t)
    \/ \E t \in Walkers : LoadAndInsert(t)
    \/ \E t \in Walkers : Wake(t)

SpecPair == InitPair /\ [][NextPair]_vars

NextExt == ExtFirst \/ ExtSecond

SpecExt == InitExt /\ [][NextExt]_vars

-----------------------------------------------------------------------------
(* Claims about the source cache *)

Readers(p) == {t \in Threads : pc[t] = "reading" /\ arg[t].path = p}

SamePayload(result, outcome) ==
    /\ result.ok = (outcome.tag = "Success")
    /\ result.val = outcome.val

\* C1: single-flight. For every path at most one thread is reading it at any
\* time; a thread that found another thread's load in flight never reads the
\* file itself, stays blocked while that load is in flight, and returns the
\* very outcome the loader stored; the path is read once per vacancy of its
\* entry (once in all if it is never evicted).
C1_SingleFlight ==
    \A p \in Paths :
        /\ Cardinality(Readers(p)) <= 1
        /\ (cache[p] = Placeholder) = (Readers(p) # {})
        /\ reads[p] <= 1 + evictions[p]
        /\ \A t \in Threads :
              (arg[t].path = p /\ how[t] = "waited") =>
                 /\ pc[t] \in {"waiting", "woken", "returned"}
                 /\ (pc[t] = "waiting") = (cache[p] = Placeholder)
                 /\ pc[t] = "woken" => handoff[t] = first[p]
                 /\ pc[t] = "returned" =>
                       /\ IsValue(first[p])
                       /\ SamePayload(ret[t], first[p])

C1_Witness ==
    \E t1, t2 \in Threads :
        /\ t1 # t2
        /\ pc[t1] = "returned" /\ pc[t2] = "returned"
        /\ arg[t1].path = arg[t2].path
        /\ how[t1] = "loaded" /\ how[t2] = "waited"
        /\ ret[t1].val = ret[t2].val
        /\ reads[arg[t1].path] = 1

\* C2: the cache never evicts and never rewrites: every path whose outcome
\* was once stored still holds that entry, is never read a second time and
\* its key is never written twice.
C2_NeverEvicts ==
    \A p \in Paths :
        /\ writes[p] <= 1
        /\ reads[p] <= 1
        /\ (IsValue(first[p]) => cache[p] = first[p])

\* C7: negative caching with per-caller attribution: once the first load of
\* a path failed, the path is never read again, and every call for it
\* returns the stored message with the file info of that very call.
C7_NegativeCaching ==
    \A p \in Paths :
        first[p].tag = "Failure" =>
            /\ reads[p] <= 1
            /\ \A t \in Threads :
                  (pc[t] = "returned" /\ arg[t].path = p) =>
                      ret[t] = Err(first[p].val, arg[t].from)

\* what C8 expects of content c and stored text d
Normalized(c, d) ==
    IF Len(c) > 0 /\ c[Len(c)] = "\n" THEN c = Append(d, "\n") ELSE c = d

\* C8: trailing-newline normalization: a successful load stores and returns
\* the content with exactly one trailing newline removed if it ends with a
\* newline, and unchanged otherwise.
C8_TrailingNewline ==
    \A p \in Paths :
        files[p].ok =>
            /\ IsValue(cache[p]) =>
                  cache[p].tag = "Success" /\ Normalized(files[p].val, cache[p].val)
            /\ \A t \in Threads :
                  (pc[t] = "returned" /\ arg[t].path = p) =>
                      /\ ret[t].ok
                      /\ Normalized(files[p].val, ret[t].val)

C8_Witness ==
    \E p, q \in Paths, t \in Threads :
        /\ files[p].ok /\ files[p].val = <<"\n", "\n">>
        /\ cache[p] = Success(<<"\n">>)
        /\ pc[t] = "returned" /\ arg[t].path = p /\ ret[t] = Ok(<<"\n">>)
        /\ files[q].ok /\ files[q].val = <<"a", "\n">>
        /\ cache[q] = Success(<<"a">>)

-----------------------------------------------------------------------------
(* Claims about find_used_templates *)

Parsable(p) == tpl[p].status \in {"ok", "inline"}
Exists(name) == tpl[name].status \notin {"absent", "inline"}

\* every node of a node list, at any depth
RECURSIVE AllNodes(_)
AllNodes(list) ==
    UNION {{list[i]} \cup
           UNION {AllNodes(list[i].lists[j]) : j \in 1..Len(list[i].lists)}
           : i \in 1..Len(list)}

\* the nodes of a node list that are not inside the body of a macro defined
\* below the top level
RECURSIVE OutsideNestedMacros(_, _)
OutsideNestedMacros(list, isRoot) ==
    UNION {{list[i]} \cup
           (IF list[i].kind = "Macro" /\ ~isRoot THEN {}
            ELSE UNION {OutsideNestedMacros(list[i].lists[j], FALSE)
                        : j \in 1..Len(list[i].lists)})
           : i \in 1..Len(list)}

RootNodes(p) == {tpl[p].nodes[i] : i \in 1..Len(tpl[p].nodes)}

Targets(nodes, kinds) == {n.path : n \in {m \in nodes : m.kind \in kinds /\ Exists(m.path)}}

\* the top-level extends edges of the templates
ExtendsOf(p) == IF Parsable(p) THEN Targets(RootNodes(p), {"Extends"}) ELSE {}

RECURSIVE ExtendsClosure(_)
ExtendsClosure(S) ==
    LET S2 == S \cup UNION {ExtendsOf(p) : p \in S}
    IN IF S2 = S THEN S ELSE ExtendsClosure(S2)

\* the templates p reaches through one or more top-level extends edges
ExtendsReach(p) == ExtendsClosure(ExtendsOf(p))

InExtendsCycle(p) == \E q \in Keys : q # p /\ q \in ExtendsReach(p) /\ p \in ExtendsReach(q)

KeysOf(m) == {k \in Keys : m[k] # MapNone}

\* every template has at most one extends directive, and none extends itself
SingleParents ==
    \A p \in Keys :
        /\ p \notin ExtendsOf(p)
        /\ Cardinality({i \in 1..Len(tpl[p].nodes) : tpl[p].nodes[i].kind = "Extends"}) <= 1

\* C3: every extends cycle of length >= 2 is rejected: a run started from a
\* template on such a cycle (every template with a single parent) ends with
\* the cyclic-dependency error, unless another error ends it first, and the
\* chain holds an edge out of the entry and an edge back into it.
C3_CycleRejected ==
    \A t \in Walkers :
        LET w == wk[t] IN
        (/\ w.pc = "done"
         /\ InExtendsCycle(w.entry)
         /\ SingleParents
         /\ w.result.kind \notin {"Load", "Resolve", "Parse"}) =>
            /\ w.result.kind = "Cyclic"
            /\ \E q \in Keys \ {w.entry} : Contains(w.result.val, <<w.entry, "-->", q>>)
            /\ \E q \in Keys \ {w.entry} : Contains(w.result.val, <<q, "-->", w.entry>>)

\* the walker is about to look at a top-level extends node whose target
\* resolves to the template's own path
AtSelfExtends(w) ==
    /\ w.pc = "scan"
    /\ w.idx <= Len(w.nodes)
    /\ w.root
    /\ w.nodes[w.idx].kind = "Extends"
    /\ Exists(w.nodes[w.idx].path)
    /\ w.nodes[w.idx].path = w.path

\* C4: self-inheritance is rejected: when the walker reaches a top-level
\* extends whose target is the template itself, the call ends with the
\* cyclic-dependency error, the chain holds the edge A --> A, and nothing is
\* scheduled or loaded for the directive; so no run that returns success has
\* processed a template that extends itself.
C4_SelfExtends ==
    /\ [][\A t \in Walkers :
          (AtSelfExtends(wk[t]) /\ wk'[t] # wk[t]) =>
              /\ wk'[t].pc = "done"
              /\ wk'[t].result.kind = "Cyclic"
              /\ Contains(wk'[t].result.val, <<wk[t].path, "-->", wk[t].path>>)
              /\ wk'[t].check = wk[t].check
              /\ wk'[t].map = wk[t].map
              /\ pc'[t] = pc[t] /\ cache' = cache /\ reads' = reads]_vars
    /\ [](\A t \in Walkers :
            (wk[t].pc = "done" /\ wk[t].result = OkResult) =>
                \A p \in KeysOf(wk[t].map) : p \notin ExtendsOf(p))

C4_Witness ==
    \E t \in Walkers :
        /\ wk[t].pc = "done"
        /\ wk[t].result.kind = "Cyclic"
        /\ wk[t].path # wk[t].entry
        /\ wk[t].graph # <<>>
        /\ wk[t].graph[Len(wk[t].graph)] = <<wk[t].path, wk[t].path>>
        /\ Len(wk[t].graph) > 1

DirectiveNodes(p) == {n \in AllNodes(tpl[p].nodes) : n.kind \in DirKinds}

\* A includes B and B includes A, and they hold no other directive
MutualInclusion(a, b) ==
    /\ a # b
    /\ tpl[a].status = "ok" /\ tpl[b].status = "ok"
    /\ DirectiveNodes(a) = {Leaf("Include", b)}
    /\ DirectiveNodes(b) = {Leaf("Include", a)}
    /\ Leaf("Include", b) \in OutsideNestedMacros(tpl[a].nodes, TRUE)
    /\ Leaf("Include", a) \in OutsideNestedMacros(tpl[b].nodes, TRUE)

\* C5: mutual inclusion does not error: started from A with an empty map the
\* call returns success and the map's key set is exactly {A, B}.
C5_MutualInclusion ==
    \A t \in Walkers, b \in Templates :
        LET w == wk[t] IN
        (w.pc = "done" /\ ~w.inline /\ MutualInclusion(w.entry, b)) =>
            /\ w.result = OkResult
            /\ KeysOf(w.map) = {w.entry, b}

C5_Witness ==
    \E t \in Walkers :
        /\ wk[t].pc = "done"
        /\ wk[t].entry = "A"
        /\ MutualInclusion("A", "B")
        /\ tpl["A"].nodes[1].kind = "Loop"
        /\ KeysOf(wk[t].map) = {"A", "B"}

\* the walker is about to look at an extends, import or macro node that is
\* not a direct child of the template's root node list
AtNestedDeclaration(w) ==
    /\ w.pc = "scan"
    /\ w.idx <= Len(w.nodes)
    /\ ~w.root
    /\ w.nodes[w.idx].kind \in {"Extends", "Import", "Macro"}

\* C6: top-level-only rule: an extends, import or macro node in a nested node
\* list adds no extends edge, schedules no template, pushes no body and does
\* not make the call fail: the walker only moves on to the next node.
C6_TopLevelOnly ==
    [][\A t \in Walkers :
          (AtNestedDeclaration(wk[t]) /\ wk'[t] # wk[t]) =>
              /\ wk'[t] = [wk[t] EXCEPT !.idx = @ + 1]
              /\ pc'[t] = pc[t] /\ cache' = cache /\ reads' = reads]_vars

C6_Witness ==
    \E t \in Walkers :
        LET w == wk[t] IN
        /\ w.pc = "scan"
        /\ ~w.root
        /\ w.idx = 2
        /\ w.nodes[1] = Leaf("Extends", w.path)
        /\ w.graph = <<>>
        /\ w.check = <<>>

\* what a parsed template refers to, as C9 reads it: its top-level extends
\* and import directives and its include directives at any depth
RefsOf(p) ==
    IF ~Parsable(p) THEN {}
    ELSE Targets(RootNodes(p), {"Extends", "Import"})
         \cup Targets(AllNodes(tpl[p].nodes), {"Include"})

RECURSIVE RefsClosure(_)
RefsClosure(S) ==
    LET S2 == S \cup UNION {RefsOf(p) : p \in S}
    IN IF S2 = S THEN S ELSE RefsClosure(S2)

\* the same, counting an include only when it is not inside the body of a
\* macro defined below the top level
ScannedRefsOf(p) ==
    IF ~Parsable(p) THEN {}
    ELSE Targets(RootNodes(p), {"Extends", "Import"})
         \cup Targets(OutsideNestedMacros(tpl[p].nodes, TRUE), {"Include"})

RECURSIVE ScannedRefsClosure(_)
ScannedRefsClosure(S) ==
    LET S2 == S \cup UNION {ScannedRefsOf(p) : p \in S}
    IN IF S2 = S THEN S ELSE ScannedRefsClosure(S2)

\* C9 (as claimed): on success the key set is exactly the entry and every
\* path reachable through top-level extends, top-level import and include
\* directives.
C9_ExactResult ==
    \A t \in Walkers :
        (wk[t].pc = "done" /\ wk[t].result = OkResult) =>
            KeysOf(wk[t].map) = RefsClosure({wk[t].entry})

\* C9 (amended): on success the key set is exactly the entry and every path
\* reachable through top-level extends, top-level import and those include
\* directives that are not inside the body of a macro defined below the top
\* level.
C9_ExactScannedResult ==
    \A t \in Walkers :
        (wk[t].pc = "done" /\ wk[t].result = OkResult) =>
            KeysOf(wk[t].map) = ScannedRefsClosure({wk[t].entry})

C9_Witness ==
    \E t \in Walkers :
        /\ wk[t].pc = "done"
        /\ wk[t].result = OkResult
        /\ wk[t].entry = "B"
        /\ KeysOf(wk[t].map) = {"A", "B", "C"}
        /\ tpl["A"].nodes[1].kind = "If"
        /\ tpl["A"].nodes[1].lists[2][1].kind = "Macro"
        /\ RefsClosure({"B"}) = {"A", "B", "C"}

\* C10: termination: every find_used_templates call eventually returns,
\* success or error, whatever directive graph the templates form.
C10_Termination == <>(\A t \in Walkers : wk[t].pc = "done")

C10_Witness ==
    \E t \in Walkers :
        /\ wk[t].pc = "done"
        /\ wk[t].result = OkResult
        /\ wk[t].entry = "A"
        /\ tpl["A"].nodes = <<Leaf("Import", "B"), Leaf("Include", "A")>>
        /\ tpl["B"].nodes = <<Leaf("Include", "A")>>

-----------------------------------------------------------------------------
(* Further claims about find_used_templates *)

\* C11: failure discards partial results: when the call has returned an
\* error, the caller's map holds no entry added by the call, neither a parsed
\* tree nor a dummy entry (shown on runs that pushed no path twice).
C11_PartialDiscarded ==
    \A t \in Walkers :
        (/\ wk[t].pc = "done"
         /\ wk[t].result # OkResult
         /\ \A k \in Keys : wk[t].pushes[k] <= 1) =>
            KeysOf(wk[t].map) = {}

\* C13: no path is processed twice: within one call no path is pushed onto
\* the work stack more than once, the entry path included.
C13_NoPathTwice ==
    \A t \in Walkers : \A k \in Keys : wk[t].pushes[k] <= 1

-----------------------------------------------------------------------------
(* Further claims about the source cache *)

\* C12: no timeout on the single-flight wait: a call that finds another
\* thread's load of its path in flight blocks, holds no result while it is
\* blocked, and leaves the wait only in the step in which the loader's read
\* completes and the outcome is inserted; as long as that read does not
\* complete the waiter stays blocked.
C12_NoTimeout ==
    /\ [](\A t \in Threads :
            pc[t] = "waiting" =>
                /\ ret[t] = NoRet
                /\ Readers(arg[t].path) # {}
                /\ t \notin Readers(arg[t].path))
    /\ [][\A t \in Threads :
            /\ (pc[t] = "idle" /\ how'[t] = "waited") => pc'[t] = "waiting"
            /\ pc[t] = "waiting" =>
                  \/ pc'[t] = "waiting" /\ ret'[t] = ret[t] /\ arg'[t] = arg[t]
                  \/ /\ pc'[t] = "woken"
                     /\ reads'[arg[t].path] = reads[arg[t].path] + 1
                     /\ handoff'[t] = cache'[arg[t].path]
                     /\ IsValue(handoff'[t])]_vars

C12_Witness ==
    \E t, u \in Threads, q \in Paths :
        /\ pc[t] = "waiting" /\ pc[u] = "reading"
        /\ arg[t].path = arg[u].path
        /\ q # arg[t].path
        /\ reads[q] = 1
        /\ budget = 0

\* C19: per-key blocking only: a thread waits only for a load of its own
\* path; a call for a path that no thread is loading never blocks, it returns
\* the cached value at once or starts its own read, and that read completes
\* and returns whatever the loads of other paths are doing.
C19_PerKeyBlocking ==
    /\ [](\A t \in Threads :
            /\ pc[t] = "waiting" =>
                  \E u \in Threads \ {t} : pc[u] = "reading" /\ arg[u].path = arg[t].path
            /\ pc[t] = "reading" => ENABLED LoadAndInsert(t))
    /\ [][\A t \in Threads :
            /\ (pc[t] = "idle" /\ pc'[t] # "idle" /\ Readers(arg'[t].path) = {}) =>
                  /\ pc'[t] \in {"reading", "returned"}
                  /\ IsValue(cache[arg'[t].path]) => pc'[t] = "returned"
            /\ (pc[t] = "reading" /\ pc'[t] # "reading") => pc'[t] = "returned"]_vars

C19_Witness ==
    \E t, u \in Threads :
        /\ pc[t] = "reading"
        /\ pc[u] = "returned" /\ how[u] = "loaded"
        /\ arg[u].path # arg[t].path
        /\ reads[arg[t].path] = 0
        /\ budget = 0

IncludeNodes(nodes) == {n \in nodes : n.kind = "Include"}

\* C14 (as claimed): include is discovered at any nesting depth: on success,
\* every include node anywhere in the tree of a processed template, macro
\* bodies included, has a target that resolved and is a key of the map.
C14_IncludeAnyDepth ==
    \A t \in Walkers :
        (wk[t].pc = "done" /\ wk[t].result = OkResult) =>
            \A p \in KeysOf(wk[t].map) :
                \A n \in IncludeNodes(AllNodes(tpl[p].nodes)) :
                    Exists(n.path) /\ n.path \in KeysOf(wk[t].map)

\* C14 (amended): on success, every include node of a processed template that
\* is not inside the body of a macro defined below the top level, however
\* deeply nested otherwise, has a target that resolved and is a key of the
\* map.
C14_IncludeScanned ==
    \A t \in Walkers :
        (wk[t].pc = "done" /\ wk[t].result = OkResult) =>
            \A p \in KeysOf(wk[t].map) :
                \A n \in IncludeNodes(OutsideNestedMacros(tpl[p].nodes, TRUE)) :
                    Exists(n.path) /\ n.path \in KeysOf(wk[t].map)

C14_Witness ==
    \E t \in Walkers :
        /\ wk[t].pc = "done"
        /\ wk[t].result = OkResult
        /\ wk[t].entry = "A"
        /\ tpl["A"].nodes[1].kind = "Macro"
        /\ tpl["A"].nodes[1].lists[1][1].kind = "If"
        /\ tpl["A"].nodes[1].lists[1][1].lists[2] = <<Leaf("Include", "C")>>
        /\ tpl["B"].nodes = <<Lit>>
        /\ "C" \in KeysOf(wk[t].map)

\* the number of positions of seq that hold x
Occurrences(seq, x) == Cardinality({i \in 1..Len(seq) : seq[i] = x})

\* C16: content of the cyclic-dependency diagnostic: in the step that raises
\* the error, the chain renders every extends edge recorded in this call, in
\* the order of recording, each as source --> target (the edges recorded before
\* the step, followed at most by the edge of the node at hand), and the
\* offending edge (current template, resolved target) occurs in it exactly
\* once.
C16_CyclicDiagnostic ==
    [][\A t \in Walkers :
          (wk[t].pc = "scan" /\ wk'[t].pc = "done" /\ wk'[t].result.kind = "Cyclic") =>
              LET w == wk[t]
                  n == w.nodes[w.idx]
                  offending == <<w.path, n.path>>
                  recorded == IF Contains(w.graph, offending)
                              THEN w.graph ELSE Append(w.graph, offending)
                  chain == wk'[t].result.val
              IN /\ n.kind = "Extends"
                 /\ wk'[t].graph = recorded
                 /\ Len(chain) = Len(recorded)
                 /\ \A i \in 1..Len(recorded) :
                       chain[i] = <<recorded[i][1], "-->", recorded[i][2]>>
                 /\ Occurrences(chain, <<w.path, "-->", n.path>>) = 1]_vars

C16_Witness ==
    \E t \in Walkers :
        /\ wk[t].pc = "done"
        /\ wk[t].result.kind = "Cyclic"
        /\ wk[t].result.val = << <<"A", "-->", "B">>, <<"B", "-->", "C">> >>
        /\ wk[t].path = "A"
        /\ wk[t].nodes[wk[t].idx] = Leaf("Extends", "B")

\* no template has more than one extends directive at its top level
OneExtendsEach ==
    \A p \in Keys :
        Cardinality({i \in 1..Len(tpl[p].nodes) : tpl[p].nodes[i].kind = "Extends"}) <= 1

\* C17: soundness of cycle detection: the call returns the cyclic-dependency
\* error only if some template reachable from the entry reaches itself through
\* one or more top-level extends edges (shown for templates with at most one
\* extends directive each).
C17_CycleSound ==
    \A t \in Walkers :
        (wk[t].pc = "done" /\ wk[t].result.kind = "Cyclic" /\ OneExtendsEach) =>
            \E p \in RefsClosure({wk[t].entry}) : p \in ExtendsReach(p)

OnCheck(w, k) == \E i \in 1..Len(w.check) : w.check[i].path = k

\* the source text the walker holds for path k
SourceOf(k) == IF k = InlinePath THEN <<k>> ELSE TrimNewline(files[k].val)

\* on success the work stack is empty and every key holds the tree parsed
\* from its path's source
SuccessHoldsTrees(w) ==
    (w.pc = "done" /\ w.result = OkResult) =>
        /\ w.check = <<>>
        /\ \A k \in KeysOf(w.map) : w.map[k] = ParsedOf(SourceOf(k))

\* C18 (as claimed): placeholders are always replaced: at every point of a
\* run every path that holds a dummy entry in the map is on the work stack,
\* and on success the stack is empty and every key holds a parsed tree.
C18_DummyOnStack ==
    \A t \in Walkers :
        /\ \A k \in Keys : wk[t].map[k] = Dummy => OnCheck(wk[t], k)
        /\ SuccessHoldsTrees(wk[t])

\* C18 (amended): at every point before the call returns, every path that
\* holds a dummy entry in the map is on the work stack or is the template
\* popped last, which is being scanned; and on success the stack is empty and
\* every key holds the tree parsed from its path's source.
C18_DummyOnStackOrScanned ==
    \A t \in Walkers :
        /\ wk[t].pc # "done" =>
              \A k \in Keys :
                  wk[t].map[k] = Dummy =>
                      \/ OnCheck(wk[t], k)
                      \/ wk[t].pc \in {"scan", "loading"} /\ wk[t].path = k
        /\ SuccessHoldsTrees(wk[t])

C18_Witness ==
    \E t \in Walkers :
        /\ wk[t].pc = "scan"
        /\ wk[t].path = "B"
        /\ wk[t].map["B"] = Dummy /\ ~OnCheck(wk[t], "B")
        /\ wk[t].map["C"] = Dummy /\ OnCheck(wk[t], "C")
        /\ wk[t].map["A"] = ParsedOf(<<"A">>)

\* C15: determinism and isolation of a resolution: calls for the same entry
\* over the same files end with the same outcome (the same success or error
\* with the same message, and the same keys and trees in the map), whatever
\* the shared cache held before and however the calls interleave.
C15_Deterministic ==
    /\ \A t, u \in Walkers :
          (/\ wk[t].pc = "done" /\ wk[u].pc = "done"
           /\ wk[t].entry = wk[u].entry /\ wk[t].inline = wk[u].inline) =>
              /\ wk[t].result = wk[u].result
              /\ wk[t].map = wk[u].map
              /\ wk[t].graph = wk[u].graph
    \* all a call takes from the shared cache is the source of a path, and
    \* that is what the file holds, however the cache came to hold it
    /\ \A t \in Walkers :
          pc[t] = "returned" =>
              ret[t] = ResultOf(ReadOutcome(arg[t].path), arg[t].from)

C15_Witness ==
    \E t, u \in Walkers :
        /\ t # u
        /\ wk[t].pc = "done" /\ wk[u].pc = "done"
        /\ wk[t].result = OkResult
        /\ KeysOf(wk[t].map) = {"A", "B"}
        /\ reads["A"] = 1 /\ reads["B"] = 1
        /\ wk[t].entry = "A" /\ wk[u].entry = "A"
        /\ wk[t].pushes["B"] = 1 /\ wk[u].pushes["B"] = 1

-----------------------------------------------------------------------------
(* Claims about extension(path) *)

\* the dots of a file name that start an extension: all but a leading one
ExtDots(name) == {i \in 2..Len(name) : name[i] = "."}

\* a name has an extension when a dot after its first character starts one;
\* `.` and `..` are not file names
HasExtension(name) == ExtDots(name) # {} /\ name # <<".", ".">>

Max(S) == CHOOSE i \in S : \A j \in S : j <= i

\* the last extension of a name, and the name without it
LastExtension(name) == SubSeq(name, Max(ExtDots(name)) + 1, Len(name))
StemOf(name) == SubSeq(name, 1, Max(ExtDots(name)) - 1)

\* what C20 expects for a file name that has an extension
Selected(name) ==
    IF /\ LastExtension(name) \in {<<"j2">>, <<"jinja">>, <<"jinja2">>}
       /\ HasExtension(StemOf(name))
    THEN LastExtension(StemOf(name))
    ELSE LastExtension(name)

\* C20: extension selection: for a path whose file name has an extension the
\* result is the last extension, or, when that is j2, jinja or jinja2 and the
\* stem has an extension of its own, that inner extension; a name whose only
\* extension is j2, jinja or jinja2 yields it; the result is that of the
\* file name alone, whatever directories precede it and whether or not a
\* separator follows it.
C20_ExtensionSelection ==
    (xt.pc = "done" /\ xt.name \notin {<<".">>, <<".", ".">>}) =>
        /\ HasExtension(xt.name) => xt.out = Some(Selected(xt.name))
        /\ (HasExtension(xt.name) /\ Cardinality(ExtDots(xt.name)) = 1) =>
               xt.out = Some(LastExtension(xt.name))
        /\ ~HasExtension(xt.name) => xt.out = None

C20_Witness ==
    /\ xt.pc = "done"
    /\ xt.path = <<"foo", ".", "j2", "/", "foo", ".", "html", ".", "jinja2", "/">>
    /\ xt.out = Some(<<"html">>)

====
